---- MODULE Spec2Model ----
(***************************************************************************)
(* Model of load_ecom_data.py: a one-shot loader that recreates ecom.db,   *)
(* creates five tables and appends the rows of five CSV files in           *)
(* dependency order through pandas.DataFrame.to_sql on a sqlite3           *)
(* connection.                                                             *)
(*                                                                         *)
(* Text is modelled as a sequence of one-character strings so that strip,  *)
(* upper-casing and the literal comparison are computed, not assumed.      *)
(* Rows carry their key columns (and in_stock for products); the other     *)
(* columns are taken to be present and well-typed in the CSV files.        *)
(***************************************************************************)
EXTENDS Integers, Sequences, FiniteSets, TLC

\* Total number of data rows over the CSV files of the data directory.
MaxRows == 5
\* Number of data rows of products.csv in the normalisation study (SpecBool).
MaxProducts == 2
\* Number of data rows of each CSV file when all files are fixed up front
\* (SpecFiles).
MaxFileRows == 2
\* Number of successive invocations of main().
MaxRuns == 2

----------------------------------------------------------------------------
\* Schema registry

\* TABLE_SCHEMAS iteration order (dict insertion order), which is also the
\* literal load order of main().
Tables == <<"customers", "products", "orders", "order_items", "reviews">>

LoadOrder == <<"customers", "products", "orders", "order_items", "reviews">>

TableSet == {Tables[i] : i \in 1..Len(Tables)}

\* Primary-key column of each table.
PrimaryKey ==
  [customers |-> "customer_id", products |-> "product_id",
   orders |-> "order_id", order_items |-> "item_id", reviews |-> "review_id"]

\* FOREIGN KEY (col) REFERENCES parent(pcol), as <<col, parent, pcol>>.
ForeignKeys ==
  [customers |-> {},
   products |-> {},
   orders |-> {<<"customer_id", "customers", "customer_id">>},
   order_items |-> {<<"order_id", "orders", "order_id">>,
                    <<"product_id", "products", "product_id">>},
   reviews |-> {<<"customer_id", "customers", "customer_id">>,
                <<"product_id", "products", "product_id">>}]

\* CHECK (in_stock IN (0, 1)) of products.
CheckOk(t, row) == t = "products" => row.in_stock \in {0, 1}

DATA_DIR == "data"

\* DATA_DIR / f"{name}.csv"
CsvPath(name) == <<DATA_DIR, name, ".csv">>

----------------------------------------------------------------------------
\* Text

Whitespace == {" ", "\t"}

\* str.upper on the characters that occur in the inputs.
UpperChar(c) ==
  CASE c = "t" -> "T" [] c = "r" -> "R" [] c = "u" -> "U" [] c = "e" -> "E"
    [] c = "f" -> "F" [] c = "a" -> "A" [] c = "l" -> "L" [] c = "s" -> "S"
    [] c = "n" -> "N" [] c = "y" -> "Y" [] c = "x" -> "X"
    [] OTHER -> c

Upper(s) == [i \in 1..Len(s) |-> UpperChar(s[i])]

RECURSIVE LStrip(_)
LStrip(s) == IF s # <<>> /\ Head(s) \in Whitespace THEN LStrip(Tail(s)) ELSE s

RECURSIVE RStrip(_)
RStrip(s) ==
  IF s # <<>> /\ s[Len(s)] \in Whitespace
  THEN RStrip(SubSeq(s, 1, Len(s) - 1))
  ELSE s

\* str.strip
Strip(s) == RStrip(LStrip(s))

sTRUE == <<"T", "R", "U", "E">>
sFALSE == <<"F", "A", "L", "S", "E">>

----------------------------------------------------------------------------
\* pandas.read_csv column typing of the in_stock column

\* Fields read_csv takes for a missing value.
NaValues == {<<>>, <<"N", "A">>, <<"n", "a", "n">>}

\* Fields read_csv takes for booleans when the whole column consists of them.
TrueValues == {<<"T", "r", "u", "e">>, <<"T", "R", "U", "E">>, <<"t", "r", "u", "e">>}
FalseValues == {<<"F", "a", "l", "s", "e">>, <<"F", "A", "L", "S", "E">>,
                <<"f", "a", "l", "s", "e">>}

\* Fields read_csv parses as integers.
IntLiterals == {<<"1">>, <<"0">>}

NaN == [type |-> "nan"]

Range(s) == {s[i] : i \in 1..Len(s)}

\* The typed column read_csv makes of the raw fields of one column.
ReadCsvColumn(col) ==
  LET present == Range(col) \ NaValues
      allBool == present # {} /\ present \subseteq (TrueValues \cup FalseValues)
      allInt == present # {} /\ present \subseteq IntLiterals
      hasNa == Range(col) \cap NaValues # {}
  IN [i \in 1..Len(col) |->
        IF col[i] \in NaValues THEN NaN
        ELSE IF allBool THEN [type |-> "bool", v |-> col[i] \in TrueValues]
        ELSE IF allInt THEN [type |-> IF hasNa THEN "float" ELSE "int", v |-> col[i]]
        ELSE [type |-> "str", v |-> col[i]]]

\* Series.astype(str) on one value.
AsStr(x) ==
  CASE x.type = "nan" -> <<"n", "a", "n">>
    [] x.type = "bool" -> IF x.v THEN <<"T", "r", "u", "e">>
                                 ELSE <<"F", "a", "l", "s", "e">>
    [] x.type = "int" -> x.v
    [] x.type = "float" -> x.v \o <<".", "0">>
    [] OTHER -> x.v

\* .map({"TRUE": 1, "FALSE": 0}).fillna(0).astype(int) on one value.
MapBool(s) == IF s = sTRUE THEN 1 ELSE IF s = sFALSE THEN 0 ELSE 0

NormalizeValueNoStrip(x) == MapBool(Upper(AsStr(x)))

\* The per-value pipeline of normalize_booleans.
NormalizeValue(x) == MapBool(Upper(Strip(AsStr(x))))

\* normalize_booleans(df, "in_stock") on the typed column.
normalize_booleans(col) == [i \in 1..Len(col) |-> NormalizeValue(col[i])]

\* The DataFrame load_csv returns for the file content `rows` of table `name`.
DataFrame(name, rows) ==
  IF name = "products"
  THEN LET col == normalize_booleans(
                    ReadCsvColumn([i \in 1..Len(rows) |-> rows[i].in_stock]))
       IN [i \in 1..Len(rows) |->
             [product_id |-> rows[i].product_id, in_stock |-> col[i]]]
  ELSE rows

----------------------------------------------------------------------------
\* Inputs: the CSV files of the data directory

CustomerIds == {1, 2}
ProductIds == {"P1", "P2"}
OrderIds == {"O1", "O2"}
ItemIds == {"I1"}
ReviewIds == {"R1"}

\* in_stock fields of products.csv in the load study.
InStockFew == {<<"T", "R", "U", "E">>}

\* in_stock fields of products.csv in the normalisation study.
InStockMany ==
  {<<"T", "R", "U", "E">>, <<"t", "r", "u", "e">>, <<"F", "A", "L", "S", "E">>,
   <<" ", "f", "a", "l", "s", "e", " ">>, <<" ", "T", "r", "u", "e", "\t">>,
   <<"t", "R", "u", "E">>, <<>>, <<"N", "A">>, <<"y", "e", "s">>, <<"1">>,
   <<"T", "R", "U", "E", "x">>, <<"T", " ", "R", "U", "E">>}

\* The rows a CSV file of table t can hold.
RowDomain(t, inStock) ==
  CASE t = "customers" -> [customer_id : CustomerIds]
    [] t = "products" -> [product_id : ProductIds, in_stock : inStock]
    [] t = "orders" -> [order_id : OrderIds, customer_id : CustomerIds]
    [] t = "order_items" -> [item_id : ItemIds, order_id : OrderIds, product_id : ProductIds]
    [] OTHER -> [review_id : ReviewIds, customer_id : CustomerIds, product_id : ProductIds]

SeqsUpTo(S, n) == UNION {[1..k -> S] : k \in 0..n}

Unread == [state |-> "unread", rows |-> <<>>]
Missing == [state |-> "missing", rows |-> <<>>]
Present(rows) == [state |-> "present", rows |-> rows]

----------------------------------------------------------------------------
\* State

VARIABLES
  pc,        \* position of main(): the statement about to run
  idx,       \* index of the current table in the loop being run
  run,       \* number of the current invocation of main()
  csv,       \* the CSV files, each fixed from the first time it is looked at
  db,        \* ecom.db on disk: the committed content
  connOpen,  \* the sqlite3 connection object is open
  fkOn,      \* PRAGMA foreign_keys of the connection
  view,      \* the tables as the connection sees them (uncommitted included)
  inTxn,     \* the connection has an open transaction
  exitOp,    \* what the with-block did on exit: "none", "commit", "rollback"
  df,        \* the DataFrame returned by load_csv
  err,       \* the exception in flight, or the one main() ended with
  out,       \* lines printed
  reads,     \* load_csv calls per table in this run
  inserts,   \* to_sql calls per table in this run
  hist       \* outcome of the earlier invocations

vars == <<pc, idx, run, csv, db, connOpen, fkOn, view, inTxn, exitOp, df, err,
          out, reads, inserts, hist>>

NoError == [kind |-> "none", table |-> "", path |-> <<>>]

\* FileNotFoundError(f"Missing CSV: {path}")
NotFound(t) == [kind |-> "FileNotFoundError", table |-> t, path |-> CsvPath(t)]

\* sqlite3.IntegrityError
Integrity(t) == [kind |-> "IntegrityError", table |-> t, path |-> <<>>]

NoTable == [exists |-> FALSE, rows |-> <<>>]
EmptyTable == [exists |-> TRUE, rows |-> <<>>]

\* A database without tables.
EmptyDb == [t \in TableSet |-> NoTable]

NoFile == [exists |-> FALSE, tables |-> EmptyDb]

Zero == [t \in TableSet |-> 0]

\* The state when main() is first invoked, but for the CSV files.
InitProgram ==
  /\ pc = "unlink"
  /\ idx = 1
  /\ run = 1
  /\ db = NoFile
  /\ connOpen = FALSE
  /\ fkOn = FALSE
  /\ view = EmptyDb
  /\ inTxn = FALSE
  /\ exitOp = "none"
  /\ df = <<>>
  /\ err = NoError
  /\ out = <<>>
  /\ reads = Zero
  /\ inserts = Zero
  /\ hist = <<>>

\* No CSV file has been looked at yet.
Init == InitProgram /\ csv = [t \in TableSet |-> Unread]

\* The rows of the CSV files that are fixed up front.
FileRowDomain(t) ==
  CASE t = "customers" -> [customer_id : {1}]
    [] t = "products" -> [product_id : {"P1"}, in_stock : InStockFew]
    [] t = "orders" -> [order_id : OrderIds, customer_id : {1}]
    [] t = "order_items" -> [item_id : ItemIds, order_id : OrderIds, product_id : {"P1"}]
    [] OTHER -> [review_id : ReviewIds, customer_id : {1}, product_id : {"P1"}]

Files(t) == {Missing} \cup {Present(r) : r \in SeqsUpTo(FileRowDomain(t), MaxFileRows)}

\* Every CSV file is fixed before main() is invoked.
InitFiles ==
  /\ InitProgram
  /\ \E c \in Files("customers"), p \in Files("products"), o \in Files("orders"),
        i \in Files("order_items"), r \in Files("reviews") :
       csv = [customers |-> c, products |-> p, orders |-> o, order_items |-> i,
              reviews |-> r]

----------------------------------------------------------------------------
\* sqlite

\* The store accepts `row` into table t of database v: primary key unique,
\* CHECK satisfied and, with foreign keys enforced, every parent present.
Accepts(v, fk, t, row) ==
  /\ \A i \in 1..Len(v[t].rows) : v[t].rows[i][PrimaryKey[t]] # row[PrimaryKey[t]]
  /\ CheckOk(t, row)
  /\ fk => \A f \in ForeignKeys[t] :
             \E j \in 1..Len(v[f[2]].rows) : v[f[2]].rows[j][f[3]] = row[f[1]]

RECURSIVE ExecuteManyIgnore(_, _, _, _)
ExecuteManyIgnore(v, fk, t, rows) ==
  IF rows = <<>> THEN [view |-> v, ok |-> TRUE]
  ELSE IF Accepts(v, fk, t, Head(rows))
  THEN ExecuteManyIgnore([v EXCEPT ![t].rows = Append(@, Head(rows))], fk, t, Tail(rows))
  ELSE ExecuteManyIgnore(v, fk, t, Tail(rows))

\* cursor.executemany(INSERT ...): the rows go in one statement each, in
\* order, up to the first one the store rejects.
RECURSIVE ExecuteMany(_, _, _, _)
ExecuteMany(v, fk, t, rows) ==
  IF rows = <<>> THEN [view |-> v, ok |-> TRUE]
  ELSE IF Accepts(v, fk, t, Head(rows))
  THEN ExecuteMany([v EXCEPT ![t].rows = Append(@, Head(rows))], fk, t, Tail(rows))
  ELSE [view |-> v, ok |-> FALSE]

\* Some row of a child table references a row of table t.
Referenced(v, t) ==
  \E c \in TableSet : \E f \in ForeignKeys[c] :
    /\ f[2] = t
    /\ \E i \in 1..Len(v[c].rows) : \E j \in 1..Len(v[t].rows) :
         v[c].rows[i][f[1]] = v[t].rows[j][f[3]]

RollbackKeep(v, d) == v

\* Connection.rollback(): the view falls back to the committed content.
Rollback(v, d) == d.tables

----------------------------------------------------------------------------
\* main()

RECURSIVE RowsRead(_, _)
\* Data rows of the first i CSV files that have been looked at.
RowsRead(c, i) == IF i = 0 THEN 0 ELSE Len(c[Tables[i]].rows) + RowsRead(c, i - 1)

\* What products.csv, customers.csv, ... can turn out to hold when first read.
Contents(t) ==
  IF csv[t] # Unread THEN {csv[t]}
  ELSE {Missing} \cup
       {Present(r) : r \in SeqsUpTo(RowDomain(t, InStockFew),
                                    MaxRows - RowsRead(csv, Len(Tables)))}

\* The same for the normalisation study: products.csv varies, the other files
\* hold a header and no data row.
ContentsBool(t) ==
  IF csv[t] # Unread THEN {csv[t]}
  ELSE IF t = "products"
  THEN {Present(r) : r \in SeqsUpTo(RowDomain(t, InStockMany), MaxProducts)}
  ELSE {Present(<<>>)}

UnlinkKeep ==
  /\ pc = "unlink"
  /\ pc' = "connect"
  /\ UNCHANGED <<idx, run, csv, db, connOpen, fkOn, view, inTxn, exitOp, df,
                 err, out, reads, inserts, hist>>

\* DB_PATH.unlink(missing_ok=True)
Unlink ==
  /\ pc = "unlink"
  /\ db' = NoFile
  /\ pc' = "connect"
  /\ UNCHANGED <<idx, run, csv, connOpen, fkOn, view, inTxn, exitOp, df, err,
                 out, reads, inserts, hist>>

\* sqlite3.connect(DB_PATH): opens the file, creating it when absent.
Connect ==
  /\ pc = "connect"
  /\ connOpen' = TRUE
  /\ db' = IF db.exists THEN db ELSE [exists |-> TRUE, tables |-> EmptyDb]
  /\ view' = db'.tables
  /\ fkOn' = FALSE
  /\ inTxn' = FALSE
  /\ pc' = "pragma"
  /\ UNCHANGED <<idx, run, csv, exitOp, df, err, out, reads, inserts, hist>>

PragmaOff ==
  /\ pc = "pragma"
  /\ pc' = "schema"
  /\ idx' = 1
  /\ UNCHANGED <<run, csv, db, connOpen, fkOn, view, inTxn, exitOp, df, err,
                 out, reads, inserts, hist>>

\* conn.execute("PRAGMA foreign_keys = ON;")
Pragma ==
  /\ pc = "pragma"
  /\ fkOn' = TRUE
  /\ pc' = "schema"
  /\ idx' = 1
  /\ UNCHANGED <<run, csv, db, connOpen, view, inTxn, exitOp, df, err, out,
                 reads, inserts, hist>>

\* One iteration of the schema loop: DROP TABLE IF EXISTS, then CREATE TABLE.
\* Dropping a table deletes its rows first, which the store refuses while
\* rows of a child table reference them. DDL is not run in a transaction.
ResetTable ==
  /\ pc = "schema"
  /\ LET t == Tables[idx] IN
       IF view[t].exists /\ fkOn /\ Referenced(view, t)
       THEN /\ err' = Integrity(t)
            /\ pc' = "exit"
            /\ UNCHANGED <<idx, view, db>>
       ELSE /\ view' = [view EXCEPT ![t] = EmptyTable]
            /\ db' = [db EXCEPT !.tables = view']
            /\ IF idx < Len(Tables)
               THEN idx' = idx + 1 /\ pc' = "schema"
               ELSE idx' = 1 /\ pc' = "load"
            /\ UNCHANGED err
  /\ UNCHANGED <<run, csv, connOpen, fkOn, inTxn, exitOp, df, out, reads,
                 inserts, hist>>

DoLoadSkip(content) ==
  LET t == LoadOrder[idx] IN
    /\ csv' = [csv EXCEPT ![t] = content]
    /\ reads' = [reads EXCEPT ![t] = @ + 1]
    /\ IF content.state = "missing"
       THEN /\ err' = NotFound(t)
            /\ IF idx < Len(LoadOrder)
               THEN idx' = idx + 1 /\ pc' = "load"
               ELSE idx' = idx /\ pc' = "exit"
            /\ UNCHANGED df
       ELSE /\ df' = DataFrame(t, content.rows)
            /\ pc' = "insert"
            /\ UNCHANGED <<err, idx>>
    /\ UNCHANGED <<run, db, connOpen, fkOn, view, inTxn, exitOp, out,
                   inserts, hist>>

\* load_csv(table) for a file that turns out to hold `content`.
DoLoad(content) ==
  LET t == LoadOrder[idx] IN
    /\ csv' = [csv EXCEPT ![t] = content]
    /\ reads' = [reads EXCEPT ![t] = @ + 1]
    /\ IF content.state = "missing"
       THEN /\ err' = NotFound(t)
            /\ pc' = "exit"
            /\ UNCHANGED df
       ELSE /\ df' = DataFrame(t, content.rows)
            /\ pc' = "insert"
            /\ UNCHANGED err
    /\ UNCHANGED <<idx, run, db, connOpen, fkOn, view, inTxn, exitOp, out,
                   inserts, hist>>

LoadCsv ==
  /\ pc = "load"
  /\ \E content \in Contents(LoadOrder[idx]) : DoLoad(content)

LoadCsvBool ==
  /\ pc = "load"
  /\ \E content \in ContentsBool(LoadOrder[idx]) : DoLoad(content)

\* df.to_sql(table, conn, if_exists="append", index=False): the inserts.
ToSql ==
  /\ pc = "insert"
  /\ LET t == LoadOrder[idx]
         r == ExecuteMany(view, fkOn, t, df)
     IN /\ view' = r.view
        /\ inTxn' = (inTxn \/ df # <<>>)
        /\ inserts' = [inserts EXCEPT ![t] = @ + 1]
        /\ IF r.ok
           THEN pc' = "commit" /\ UNCHANGED err
           ELSE pc' = "rollback" /\ err' = Integrity(t)
  /\ UNCHANGED <<idx, run, csv, db, connOpen, fkOn, exitOp, df, out, reads, hist>>

PandasNoCommit ==
  /\ pc = "commit"
  /\ IF idx < Len(LoadOrder)
     THEN idx' = idx + 1 /\ pc' = "load"
     ELSE idx' = 1 /\ pc' = "report"
  /\ UNCHANGED <<run, csv, db, connOpen, fkOn, view, inTxn, exitOp, df, err,
                 out, reads, inserts, hist>>

\* to_sql's transaction scope ends without an exception: commit.
PandasCommit ==
  /\ pc = "commit"
  /\ db' = [db EXCEPT !.tables = view]
  /\ inTxn' = FALSE
  /\ IF idx < Len(LoadOrder)
     THEN idx' = idx + 1 /\ pc' = "load"
     ELSE idx' = 1 /\ pc' = "report"
  /\ UNCHANGED <<run, csv, connOpen, fkOn, view, exitOp, df, err, out, reads,
                 inserts, hist>>

\* to_sql's transaction scope ends with the exception: rollback, re-raise.
PandasRollback ==
  /\ pc = "rollback"
  /\ view' = Rollback(view, db)
  /\ inTxn' = FALSE
  /\ pc' = "exit"
  /\ UNCHANGED <<idx, run, csv, db, connOpen, fkOn, exitOp, df, err, out,
                 reads, inserts, hist>>

Header == [text |-> "Row counts:", table |-> "", count |-> 0]
Line(t, n) == [text |-> "- ", table |-> t, count |-> n]

\* SELECT COUNT(*) FROM table
Count(v, t) == Len(v[t].rows)

\* The row-count report.
Report ==
  /\ pc = "report"
  /\ out' = <<Header>> \o [i \in 1..Len(Tables) |-> Line(Tables[i], Count(view, Tables[i]))]
  /\ pc' = "exit"
  /\ UNCHANGED <<idx, run, csv, db, connOpen, fkOn, view, inTxn, exitOp, df,
                 err, reads, inserts, hist>>

\* Connection.__exit__: commit when the block ended normally, rollback when
\* an exception left it. The connection is not closed.
ExitWith ==
  /\ pc = "exit"
  /\ IF err = NoError
     THEN /\ db' = [db EXCEPT !.tables = view]
          /\ exitOp' = "commit"
          /\ pc' = "done"
          /\ UNCHANGED view
     ELSE /\ view' = Rollback(view, db)
          /\ exitOp' = "rollback"
          /\ pc' = "failed"
          /\ UNCHANGED db
  /\ inTxn' = FALSE
  /\ UNCHANGED <<idx, run, csv, connOpen, fkOn, df, err, out, reads, inserts, hist>>

\* The process ends and main() is invoked again on the same files.
Restart ==
  /\ pc \in {"done", "failed"}
  /\ run < MaxRuns
  /\ hist' = Append(hist, [out |-> out, err |-> err])
  /\ run' = run + 1
  /\ pc' = "unlink"
  /\ idx' = 1
  /\ connOpen' = FALSE
  /\ fkOn' = FALSE
  /\ view' = EmptyDb
  /\ inTxn' = FALSE
  /\ exitOp' = "none"
  /\ df' = <<>>
  /\ err' = NoError
  /\ out' = <<>>
  /\ reads' = Zero
  /\ inserts' = Zero
  /\ UNCHANGED <<csv, db>>

Steps ==
  \/ Unlink \/ Connect \/ Pragma \/ ResetTable \/ ToSql \/ PandasCommit
  \/ PandasRollback \/ Report \/ ExitWith \/ Restart

Next == Steps \/ LoadCsv

Spec == Init /\ [][Next]_vars

NextBool == Steps \/ LoadCsvBool

SpecBool == Init /\ [][NextBool]_vars

SpecFiles == InitFiles /\ [][Next]_vars

----------------------------------------------------------------------------
\* Properties

Terminated == pc \in {"done", "failed"}

\* main() has left the schema loop behind.
Initialized == pc \notin {"unlink", "connect", "pragma", "schema"}

\* Position of table t in the load order.
Pos(t) == CHOOSE i \in 1..Len(LoadOrder) : LoadOrder[i] = t

\* The values of column col in rows.
Column(rows, col) == {rows[i][col] : i \in 1..Len(rows)}

\* The rows of table t that the file content of t amounts to.
Loaded(t) == DataFrame(t, csv[t].rows)

\* The file of t is there, its keys are distinct and its references resolve
\* within the files.
ConsistentFile(t) ==
  /\ csv[t].state = "present"
  /\ \A i, j \in 1..Len(csv[t].rows) :
       csv[t].rows[i][PrimaryKey[t]] = csv[t].rows[j][PrimaryKey[t]] => i = j
  /\ \A f \in ForeignKeys[t] :
       /\ csv[f[2]].state = "present"
       /\ Column(csv[t].rows, f[1]) \subseteq Column(csv[f[2]].rows, f[3])

\* Every row of table t in database v is the normalisation of the row of
\* products.csv at the same position.
InStockOf(v) ==
  \A i \in 1..Len(v.products.rows) :
    /\ i <= Len(csv.products.rows)
    /\ v.products.rows[i].product_id = csv.products.rows[i].product_id
    /\ v.products.rows[i].in_stock \in {0, 1}
    /\ v.products.rows[i].in_stock = 1
         <=> Upper(Strip(csv.products.rows[i].in_stock)) = sTRUE

\* C1: every in_stock value in the store is 0 or 1, and it is 1 exactly when
\* the field of products.csv, stripped and upper-cased, is the literal TRUE;
\* anything else (FALSE, other text, empty, missing) is stored as 0.
C1_InStockNormalized == InStockOf(view) /\ InStockOf(db.tables)

\* C1 witness: a finished run that stored one product with surrounding
\* whitespace as 1 and one with an empty field as 0.
C1_Witness ==
  /\ pc = "done"
  /\ \E i, j \in 1..Len(db.tables.products.rows) :
       /\ csv.products.rows[i].in_stock = <<" ", "T", "r", "u", "e", "\t">>
       /\ db.tables.products.rows[i].in_stock = 1
       /\ csv.products.rows[j].in_stock = <<>>
       /\ db.tables.products.rows[j].in_stock = 0

\* C2: after a run that completes without error, the report gives for each
\* table, in registry order, the number of data rows of its CSV file, and that
\* is the number of rows the store holds.
C2_ReportMatchesCsv ==
  pc = "done" =>
    /\ Len(out) = Len(Tables) + 1
    /\ out[1] = Header
    /\ \A i \in 1..Len(Tables) :
         /\ csv[Tables[i]].state = "present"
         /\ out[i + 1] = Line(Tables[i], Len(csv[Tables[i]].rows))
         /\ Len(db.tables[Tables[i]].rows) = Len(csv[Tables[i]].rows)

\* C2 witness: a completed run in which every file held a data row.
C2_Witness ==
  /\ pc = "done"
  /\ \A t \in TableSet : csv[t].rows # <<>>

\* C3: a second run on the same files ends as the first did, with the same
\* report and the same outcome, and the store holds what one run stores.
C3_SecondRunSame ==
  (Terminated /\ run > 1) =>
    /\ out = hist[run - 1].out
    /\ err = hist[run - 1].err
    /\ pc = "done" => \A t \in TableSet : db.tables[t].rows = Loaded(t)

\* C3 witness: the second run completed after a first run that stored rows
\* in parent and child tables.
C3_Witness ==
  /\ pc = "done"
  /\ run = 2
  /\ hist[1].out # <<>>
  /\ csv.customers.rows # <<>>
  /\ csv.orders.rows # <<>>

\* order_items.csv holds a row whose order_id is not in orders.csv.
DanglingItem ==
  /\ csv.order_items.state = "present"
  /\ \E i \in 1..Len(csv.order_items.rows) :
       csv.order_items.rows[i].order_id \notin Column(csv.orders.rows, "order_id")

\* customers, products and orders were loaded: each file present and its rows
\* in the store.
ParentsLoaded ==
  \A t \in {"customers", "products", "orders"} :
    csv[t].state = "present" /\ db.tables[t].rows = Loaded(t)

\* C4 as stated: with such a row the run ends with an integrity failure
\* raised at the insert of order_items, and prints no report.
C4_AsStated ==
  (Terminated /\ DanglingItem) =>
    /\ pc = "failed"
    /\ err = Integrity("order_items")
    /\ out = <<>>

\* C4 amended: with such a row the run fails and prints no report; when
\* customers, products and orders have been loaded, the failure is an integrity
\* failure raised at the insert of order_items.
C4_DanglingItemFails ==
  (Terminated /\ DanglingItem) =>
    /\ pc = "failed"
    /\ out = <<>>
    /\ ParentsLoaded => err = Integrity("order_items")

\* C4 witness: the parents are loaded, orders holds a row, and the run failed
\* on an order item of an unknown order.
C4_Witness ==
  /\ pc = "failed"
  /\ DanglingItem
  /\ ParentsLoaded
  /\ db.tables.orders.rows # <<>>
  /\ err = Integrity("order_items")

\* C5: with reviews.csv missing and the other four files present and
\* consistent, the run fails with NotFound on data/reviews.csv, the four
\* tables keep their rows and reviews is empty.
C5_MissingReviews ==
  (/\ Terminated
   /\ csv.reviews = Missing
   /\ \A t \in TableSet \ {"reviews"} : ConsistentFile(t)) =>
    /\ pc = "failed"
    /\ err.kind = "FileNotFoundError"
    /\ err.path = <<"data", "reviews", ".csv">>
    /\ out = <<>>
    /\ \A t \in TableSet \ {"reviews"} :
         db.tables[t].exists /\ db.tables[t].rows = Loaded(t)
    /\ db.tables.reviews = EmptyTable

\* C5 witness: the run failed on the missing reviews.csv with rows in all
\* four other tables.
C5_Witness ==
  /\ pc = "failed"
  /\ csv.reviews = Missing
  /\ err = NotFound("reviews")
  /\ \A t \in TableSet \ {"reviews"} : db.tables[t].rows # <<>>

\* C6: when main() has ended, normally or with an exception, the connection
\* has been closed, or at least committed.
C6_Released == Terminated => (~connOpen \/ exitOp = "commit")

\* Every reference of every row of database v resolves in v.
References(v) ==
  \A t \in TableSet : \A f \in ForeignKeys[t] :
    Column(v[t].rows, f[1]) \subseteq Column(v[f[2]].rows, f[3])

\* C7: in every state, committed or not, every foreign key of every stored
\* row references a stored row of the parent table.
C7_ReferencesResolve == References(view) /\ References(db.tables)

\* C7 witness: an order was stored, and the next one, of an unknown customer,
\* was rejected.
C7_Witness ==
  /\ pc = "rollback"
  /\ LoadOrder[idx] = "orders"
  /\ view.orders.rows # <<>>
  /\ \E i \in 1..Len(df) : df[i].customer_id \notin Column(view.customers.rows, "customer_id")

\* C8: once the schema loop has finished all five tables exist and are empty,
\* in every run; afterwards a table holds nothing until this run inserts into
\* it, and then nothing but rows of this run's file.
C8_FreshStore ==
  Initialized =>
    \A t \in TableSet :
      /\ view[t].exists /\ db.tables[t].exists
      /\ inserts[t] = 0 => view[t].rows = <<>> /\ db.tables[t].rows = <<>>
      /\ db.tables[t].rows \in {<<>>, Loaded(t)}

\* C8 witness: the schema loop of a second run has just finished, the first
\* run having failed after it had stored customers.
C8_Witness ==
  /\ run = 2
  /\ pc = "load"
  /\ idx = 1
  /\ hist[1].err.kind # "none"
  /\ hist[1].err.table # "customers"
  /\ csv.customers.rows # <<>>
  /\ \A t \in TableSet : db.tables[t] = EmptyTable

\* C9: once the load of table T has failed, T is not loaded again, no later
\* table is read or inserted into, and nothing is printed.
C9_FailFast ==
  /\ \A t \in TableSet : reads[t] <= 1 /\ inserts[t] <= reads[t]
  /\ err # NoError =>
       /\ out = <<>>
       /\ pc \in {"rollback", "exit", "failed"}
       /\ reads[err.table] = 1
       /\ \A t \in TableSet :
            Pos(t) > Pos(err.table) =>
              /\ reads[t] = 0
              /\ inserts[t] = 0
              /\ view[t].rows = <<>>
              /\ db.tables[t].rows = <<>>

\* C9 witness: the run ended on a failure of the first table with the later
\* files there.
C9_Witness ==
  /\ pc = "failed"
  /\ err.table = "customers"
  /\ \A t \in TableSet \ {"customers"} : csv[t].state = "present" /\ csv[t].rows # <<>>

\* C10: after an integrity failure at the insert of table T, T is empty, also
\* of the rows that preceded the offending one, and every table loaded before
\* T holds all its rows.
C10_AllOrNothing ==
  (pc = "failed" /\ err.kind = "IntegrityError") =>
    \A t \in TableSet :
      /\ t = err.table => view[t].rows = <<>> /\ db.tables[t].rows = <<>>
      /\ Pos(t) < Pos(err.table) =>
           view[t].rows = Loaded(t) /\ db.tables[t].rows = Loaded(t)

\* C10 witness: the insert of orders failed on its second row, the first one
\* being acceptable, with customers loaded before.
C10_Witness ==
  /\ pc = "failed"
  /\ err = Integrity("orders")
  /\ db.tables.customers.rows # <<>>
  /\ Len(df) >= 2
  /\ Accepts(db.tables, fkOn, "orders", df[1])

====
